---------------------------- MODULE Spec2Model ----------------------------
(***************************************************************************)
(* Model of the Jeopardy question curation notebook (workbook.ipynb).      *)
(*                                                                         *)
(* A word is a sequence of one-character strings; a text is a sequence of  *)
(* words and stands for the Python string ' '.join(words).  An empty word  *)
(* in a text therefore stands for two adjacent spaces (or a leading or     *)
(* trailing space), which is what is left behind when a span of            *)
(* characters is cut out of such a string.                                 *)
(***************************************************************************)
EXTENDS Integers, Sequences, FiniteSets, TLC

(***************************************************************************)
(* Bounds of the model.                                                    *)
(***************************************************************************)
\* number of records (rows of df)
NumRecords == 2
\* longest token handed to is_valid_roman on its own
MaxTokenLen == 4
\* longest text (in words) handed to a detector function on its own
MaxTextLen == 3

(***************************************************************************)
(* Characters: str.lower, str.upper, str.isalpha, str.isupper, \d, \w, \s  *)
(***************************************************************************)
LowerLetters == <<"a","b","c","d","e","f","g","h","i","j","k","l","m",
                  "n","o","p","q","r","s","t","u","v","w","x","y","z">>
UpperLetters == <<"A","B","C","D","E","F","G","H","I","J","K","L","M",
                  "N","O","P","Q","R","S","T","U","V","W","X","Y","Z">>
Digits == {"0","1","2","3","4","5","6","7","8","9"}

Range(s) == {s[i] : i \in DOMAIN s}

IsLowerChar(c) == c \in Range(LowerLetters)
IsUpperChar(c) == c \in Range(UpperLetters)
IsAlphaChar(c) == IsLowerChar(c) \/ IsUpperChar(c)
IsDigitChar(c) == c \in Digits
\* \w of the re module on the characters used here
IsWordChar(c) == IsAlphaChar(c) \/ IsDigitChar(c) \/ c = "_"
\* \s of the re module on the characters used here
IsSpaceChar(c) == c \in {" ", "\n", "\t"}

IndexIn(s, c) == CHOOSE i \in DOMAIN s : s[i] = c
LowerChar(c) == IF IsUpperChar(c) THEN LowerLetters[IndexIn(UpperLetters, c)] ELSE c
UpperChar(c) == IF IsLowerChar(c) THEN UpperLetters[IndexIn(LowerLetters, c)] ELSE c

\* str.lower() and str.upper() of a word
lower(w) == [i \in DOMAIN w |-> LowerChar(w[i])]
upper(w) == [i \in DOMAIN w |-> UpperChar(w[i])]
\* str.isalpha(): non-empty and every character a letter
isalpha(w) == w # <<>> /\ \A i \in DOMAIN w : IsAlphaChar(w[i])
\* str.isupper(): at least one cased character and no lower-case one
isupper(w) == /\ \E i \in DOMAIN w : IsUpperChar(w[i])
              /\ \A i \in DOMAIN w : ~IsLowerChar(w[i])

(***************************************************************************)
(* ROMAN_NUMERAL_PATTERN and is_valid_roman                                *)
(***************************************************************************)
\* the alternatives of the four groups of the pattern
RomanThousands == { <<>>, <<"M">>, <<"M","M">>, <<"M","M","M">> }
RomanGroup(nine, four, five, one) ==
    { nine, four } \cup
    { d \o r : d \in { <<>>, five },
               r \in { <<>>, one, one \o one, one \o one \o one } }
RomanHundreds == RomanGroup(<<"C","M">>, <<"C","D">>, <<"D">>, <<"C">>)
RomanTens     == RomanGroup(<<"X","C">>, <<"X","L">>, <<"L">>, <<"X">>)
RomanUnits    == RomanGroup(<<"I","X">>, <<"I","V">>, <<"V">>, <<"I">>)

\* positions of s a group can end at when it starts at one of the positions starts;
\* re.IGNORECASE compares the letters without their case
GroupEnds(s, starts, alts) ==
    { e \in 0..Len(s) :
        \E p \in starts, a \in alts :
            /\ e = p + Len(a)
            /\ upper(SubSeq(s, p + 1, e)) = a }

\* positions at which '$' matches: the end of the string, and just before
\* a newline that is the last character
DollarAt(s) == { Len(s) } \cup
               ( IF Len(s) > 0 /\ s[Len(s)] = "\n" THEN { Len(s) - 1 } ELSE {} )

\* ROMAN_NUMERAL_PATTERN.match(string) is not None
PatternMatches(s) ==
    LET e1 == GroupEnds(s, {0}, RomanThousands)
        e2 == GroupEnds(s, e1, RomanHundreds)
        e3 == GroupEnds(s, e2, RomanTens)
        e4 == GroupEnds(s, e3, RomanUnits)
    IN  (e4 \cap DollarAt(s)) # {}

is_valid_roman(string) == PatternMatches(string)


(***************************************************************************)
(* Words of the modelled questions                                         *)
(***************************************************************************)
wRome == <<"R","o","m","e">>
wrome == <<"r","o","m","e">>
wtwo  == <<"t","w","o">>
wthe  == <<"t","h","e">>
wdept == <<"d","e","p","t">>
w7    == <<"7">>
wVIII == <<"V","I","I","I">>
wIV   == <<"I","V">>
wLT   == <<"<">>
wGT   == <<">">>
wQUOT == <<"\"">>
wVIIIComma == <<"V","I","I","I",",">>
wiv   == <<"i","v">>
wTV   == <<"T","V">>
wtwos == <<"t","w","o","s">>
waal  == <<"a","a","l">>

\* the value pandas holds for a question field that is missing (a float
\* NaN): not a str, so not a text of words
NaN == << <<"float('nan')">> >>
IsStr(q) == q # NaN

\* The question fields a loaded record may carry.  In these texts '<', '>'
\* and '"' are words of their own and there is no '&', '.' or newline.
Questions ==
    { NaN,
      <<>>,
      << wRome >>,
      << wrome, wRome, wtwo >>,
      << wtwo, wLT, wRome >>,
      << wGT, wtwo >>,
      << wLT, wrome, wGT, w7 >>,
      << wQUOT, wVIII, wQUOT >>,
      << wRome, wIV >>,
      << wLT, wIV >>,
      << wthe, wdept >> }

(***************************************************************************)
(* Utility functions                                                       *)
(***************************************************************************)
Min(S) == CHOOSE x \in S : \A y \in S : x <= y

\* re.sub('<.*?>|&(...);', '', text): from each '<' that has a '>' after
\* it, the span up to the first such '>' is cut out; what is cut leaves an
\* empty word between the spaces that surrounded it.  (No modelled text
\* holds '&', so the entity alternative matches nowhere.)
RECURSIVE strip_html_tags(_)
strip_html_tags(text) ==
    IF text = <<>> THEN <<>>
    ELSE LET closing == { j \in 2..Len(text) : text[j] = wGT }
         IN  IF Head(text) = wLT /\ closing # {}
             THEN << <<>> >> \o strip_html_tags(SubSeq(text, Min(closing) + 1, Len(text)))
             ELSE << Head(text) >> \o strip_html_tags(Tail(text))

\* str.startswith(c) and str.endswith(c) of the string a text stands for
StartsWith(text, c) == text # <<>> /\ text[1] # <<>> /\ text[1][1] = c
EndsWith(text, c) ==
    text # <<>> /\ text[Len(text)] # <<>>
                /\ text[Len(text)][Len(text[Len(text)])] = c

\* text[1:-1]
DropEnds(text) ==
    IF Len(text) = 1
    THEN << SubSeq(text[1], 2, Len(text[1]) - 1) >>
    ELSE << Tail(text[1]) >> \o SubSeq(text, 2, Len(text) - 1)
         \o << SubSeq(text[Len(text)], 1, Len(text[Len(text)]) - 1) >>

strip_quotes(text) ==
    IF StartsWith(text, "\"") /\ EndsWith(text, "\"") THEN DropEnds(text)
    ELSE IF StartsWith(text, "'") /\ EndsWith(text, "'") THEN DropEnds(text)
    ELSE text

\* str.lower() of a text
LowerText(text) == [i \in DOMAIN text |-> lower(text[i])]

\* str.split(): the maximal runs of non-space characters
split(text) == SelectSeq(text, LAMBDA w : w # <<>>)

(***************************************************************************)
(* NLTK: word_tokenize, pos_tag, the lexicons                              *)
(***************************************************************************)
\* nltk.word_tokenize on one space-free word, by the Treebank rules that
\* apply to the characters of the modelled texts: brackets and [;@#$%&?!]
\* stand alone, ',' and ':' stand alone unless a digit follows, '"' becomes
\* the opening-quotes token where it opens (start of the word, or after a
\* bracket) and the closing-quotes token where it closes.
\* The two tokens (two grave accents, two apostrophes) are written as one
\* symbol each.
OpeningQuotes == <<"(2 grave accents)">>
ClosingQuotes == <<"(2 apostrophes)">>
BracketChars == {"<", ">", "(", ")", "[", "]", "{", "}"}
LoneChars == BracketChars \cup {";", "@", "#", "$", "%", "&", "?", "!"}
Flush(cur) == IF cur = <<>> THEN <<>> ELSE << cur >>
RECURSIVE TokenizeFrom(_, _, _)
TokenizeFrom(w, i, cur) ==
    IF i > Len(w) THEN Flush(cur)
    ELSE LET c == w[i] IN
         IF c = "\""
         THEN LET opens == i = 1 \/ w[i - 1] \in {"(", "[", "{", "<"}
                  quote == IF opens THEN OpeningQuotes ELSE ClosingQuotes
              IN  Flush(cur) \o << quote >> \o TokenizeFrom(w, i + 1, <<>>)
         ELSE IF c \in LoneChars
         THEN Flush(cur) \o << <<c>> >> \o TokenizeFrom(w, i + 1, <<>>)
         ELSE IF c \in {",", ":"} /\ ~(i < Len(w) /\ IsDigitChar(w[i + 1]))
         THEN Flush(cur) \o << <<c>> >> \o TokenizeFrom(w, i + 1, <<>>)
         ELSE TokenizeFrom(w, i + 1, Append(cur, c))

RECURSIVE word_tokenize(_)
word_tokenize(text) ==
    IF text = <<>> THEN <<>>
    ELSE TokenizeFrom(Head(text), 1, <<>>) \o word_tokenize(Tail(text))

\* nltk.corpus.stopwords.words("english"), the entries the questions use
StopwordsCorpus == { wthe }
\* nltk.corpus.words.words(), the entries the questions use (with the
\* casing of the list: proper names are capitalised in it); "aal" is an
\* entry of the list that WordNet does not have
WordsCorpus == { wRome, wtwo, wthe, waal }
\* the lemmas that have at least one WordNet synset
WordNetLemmas == { wrome, wtwo, <<"i","v">>, <<"v","i","i","i">> }

\* set(stopwords.words("english"))
STOPWORDS == StopwordsCorpus
\* set(w.lower() for w in words.words())
ENGLISH_VOCAB == { lower(w) : w \in WordsCorpus }

\* wordnet.synsets(lemma) is non-empty
HasSynsets(lemma) == lemma \in WordNetLemmas

\* WordNetLemmatizer.lemmatize(word) (noun): morphy's rule that detaches a
\* final 's' when what remains is a WordNet lemma; a word no rule reduces
\* is returned as it is
lemmatize(word) ==
    IF Len(word) > 1 /\ word[Len(word)] = "s"
       /\ SubSeq(word, 1, Len(word) - 1) \in WordNetLemmas
    THEN SubSeq(word, 1, Len(word) - 1)
    ELSE word

\* The tag the perceptron tagger gives a token.  The tagger is a trained
\* model outside the repository; it is taken here to decide by the shape
\* of the token: capitalised and all-capital words are proper nouns, other
\* alphabetic words common nouns, number words and digits cardinals.
TagOf(word) ==
    IF word \in { wthe } THEN "DT"
    ELSE IF word \in { wtwo } THEN "CD"
    ELSE IF \E i \in DOMAIN word : IsDigitChar(word[i]) THEN "CD"
    ELSE IF isalpha(word) /\ IsUpperChar(word[1]) THEN "NNP"
    ELSE IF isalpha(word) THEN "NN"
    ELSE "SYM"

\* nltk.pos_tag(tokens): the (word, tag) pairs
pos_tag(tokens) == [i \in DOMAIN tokens |-> << tokens[i], TagOf(tokens[i]) >>]

(***************************************************************************)
(* Number functions                                                        *)
(***************************************************************************)
\* SPELLED_NUMBERS_SET, the entries the questions can hit
SPELLED_NUMBERS_SET == { <<"o","n","e">>, wtwo, <<"t","e","n">>, <<"o","n","c","e">> }

\* What nltk.pos_tag([""]) does is a matter of the installed NLTK: older
\* perceptron taggers index the first character of the word and raise
\* IndexError, later ones return a tag.
EmptyWordTagging == { "IndexError", "NN", "JJ" }

TagIsNoun(tag) == tag \in { "NN", "NNS", "NNP", "NNPS" }

\* is_noun(word): pos_tag([word])[0][1].startswith('NN')
is_noun(word, e) ==
    IF word = <<>> THEN TagIsNoun(e) ELSE TagIsNoun(pos_tag(<< word >>)[1][2])
is_noun_raises(word, e) == word = <<>> /\ e = "IndexError"

\* the bigram test without the noun check
is_noun_roman_bigram_AnyWord(bigram, e) == is_valid_roman(bigram[2])

\* is_noun_roman_bigram(bigram): is_noun is evaluated first
is_noun_roman_bigram(bigram, e) == is_noun(bigram[1], e) /\ is_valid_roman(bigram[2])

\* first_word.endswith((',', '.', ';', ':'))
EndsWithPunctuation(word) ==
    word # <<>> /\ word[Len(word)] \in { ",", ".", ";", ":" }
\* re.sub(r'[^\w\s]', '', first_word)
RemoveSymbols(word) == SelectSeq(word, LAMBDA c : IsWordChar(c) \/ IsSpaceChar(c))

\* the short upper-case tokens whose left neighbour goes to is_noun
ReachesNounCheck(input_tokens, idx) ==
    /\ isupper(input_tokens[idx])
    /\ Len(input_tokens[idx]) <= 2
    /\ idx > 1
    /\ ~EndsWithPunctuation(input_tokens[idx - 1])

\* the context rule applied to the longer tokens as well
IsRomanAt_AlwaysInContext(input_tokens, idx, e) ==
    /\ isupper(input_tokens[idx])
    /\ idx > 1
    /\ ~EndsWithPunctuation(input_tokens[idx - 1])
    /\ is_noun_roman_bigram(<< RemoveSymbols(input_tokens[idx - 1]),
                               input_tokens[idx] >>, e)

\* whether the token at idx is appended to valid_roman_numerals
IsRomanAt(input_tokens, idx, e) ==
    /\ isupper(input_tokens[idx])
    /\ IF Len(input_tokens[idx]) <= 2
       THEN /\ ReachesNounCheck(input_tokens, idx)
            /\ is_noun_roman_bigram(<< RemoveSymbols(input_tokens[idx - 1]),
                                       input_tokens[idx] >>, e)
       ELSE is_valid_roman(input_tokens[idx])

\* find_valid_roman_numerals calls is_noun, and with it the tagger
find_valid_roman_numerals_tags(input_text) ==
    LET input_tokens == split(input_text)
    IN  \E idx \in DOMAIN input_tokens : ReachesNounCheck(input_tokens, idx)

\* find_valid_roman_numerals raises when is_noun does
find_valid_roman_numerals_raises(input_text, e) ==
    LET input_tokens == split(input_text)
    IN  \E idx \in DOMAIN input_tokens :
            /\ ReachesNounCheck(input_tokens, idx)
            /\ is_noun_raises(RemoveSymbols(input_tokens[idx - 1]), e)

RECURSIVE RomanFrom(_, _, _)
RomanFrom(input_tokens, idx, e) ==
    IF idx > Len(input_tokens) THEN <<>>
    ELSE ( IF IsRomanAt(input_tokens, idx, e)
           THEN << input_tokens[idx] >> ELSE <<>> )
         \o RomanFrom(input_tokens, idx + 1, e)

find_valid_roman_numerals(input_text, e) == RomanFrom(split(input_text), 1, e)

\* lambda x: bool(set(nltk.word_tokenize(x.lower())) & SPELLED_NUMBERS_SET)
HasSpelledNumber(x) ==
    (Range(word_tokenize(LowerText(x))) \cap SPELLED_NUMBERS_SET) # {}

\* lambda x: any(re.search(r'\d', token) for token in nltk.word_tokenize(x))
HasNumericalValue(x) ==
    \E token \in Range(word_tokenize(x)) :
        \E i \in DOMAIN token : IsDigitChar(token[i])

(***************************************************************************)
(* Non-English word functions                                              *)
(***************************************************************************)
excluded_pos_tags == { "NNP", "NNPS", "IN", "DT", "WP", "WP$", "WRB", "PRP",
                       "PRP$", "CC", "TO", "MD", "EX", "UH" }

\* the filter without the test of the tag
filtered_tokens_AnyTag(input_text, stopword_list) ==
    SelectSeq(pos_tag(word_tokenize(input_text)),
              LAMBDA wt : /\ isalpha(wt[1])
                          /\ lower(wt[1]) \notin stopword_list)

\* filtered_tokens of find_non_english_word
filtered_tokens(input_text, stopword_list) ==
    SelectSeq(pos_tag(word_tokenize(input_text)),
              LAMBDA wt : /\ isalpha(wt[1])
                          /\ lower(wt[1]) \notin stopword_list
                          /\ wt[2] \notin excluded_pos_tags)

\* the test without the lemma as it is
InEnDict_NoLemma(word, lemma_word) ==
    \/ upper(lemma_word) \in ENGLISH_VOCAB
    \/ lower(word) \in ENGLISH_VOCAB

\* the four-variant test against ENGLISH_VOCAB
InEnDict(word, lemma_word) ==
    \/ lemma_word \in ENGLISH_VOCAB
    \/ lower(lemma_word) \in ENGLISH_VOCAB
    \/ upper(lemma_word) \in ENGLISH_VOCAB
    \/ lower(word) \in ENGLISH_VOCAB

\* "combined" asking for both lexicons to know the word
FlaggedNonEnglish_Both(word, method) ==
    LET lemma_word == lemmatize(lower(word))
    IN  IF method = "wordnet" /\ ~HasSynsets(lemma_word) THEN TRUE
        ELSE IF method = "en_dict" /\ ~InEnDict(word, lemma_word) THEN TRUE
        ELSE IF method = "combined"
        THEN ~(HasSynsets(lemma_word) /\ InEnDict(word, lemma_word))
        ELSE FALSE

\* an unknown method treated as the default, "wordnet"
FlaggedNonEnglish_DefaultWordnet(word, method) ==
    LET lemma_word == lemmatize(lower(word))
    IN  IF method = "en_dict" THEN ~InEnDict(word, lemma_word)
        ELSE IF method = "combined"
        THEN ~(HasSynsets(lemma_word) \/ InEnDict(word, lemma_word))
        ELSE ~HasSynsets(lemma_word)

\* whether the loop body appends the word
FlaggedNonEnglish(word, method) ==
    LET lemma_word == lemmatize(lower(word))
    IN  IF method = "wordnet" /\ ~HasSynsets(lemma_word) THEN TRUE
        ELSE IF method = "en_dict" /\ ~InEnDict(word, lemma_word) THEN TRUE
        ELSE IF method = "combined"
        THEN ~(HasSynsets(lemma_word) \/ InEnDict(word, lemma_word))
        ELSE FALSE

find_non_english_word(input_text, method, stopword_list) ==
    LET kept == SelectSeq(filtered_tokens(input_text, stopword_list),
                          LAMBDA wt : FlaggedNonEnglish(wt[1], method))
    IN  [i \in DOMAIN kept |-> kept[i][1]]

\* the WordNet corpus is read on the first call of lemmatize or synsets,
\* that is for the first filtered token
find_non_english_word_reads_wordnet(input_text, stopword_list) ==
    filtered_tokens(input_text, stopword_list) # <<>>

(***************************************************************************)
(* Proper noun functions                                                   *)
(***************************************************************************)
find_proper_nouns(text) ==
    LET tagged == SelectSeq(pos_tag(word_tokenize(text)),
                            LAMBDA wt : wt[2] \in { "NNP", "NNPS" })
    IN  [i \in DOMAIN tagged |-> tagged[i][1]]

\* ' '.join(texts): an empty text still takes its place between two spaces
RECURSIVE JoinTexts(_)
JoinTexts(texts) ==
    IF texts = <<>> THEN <<>>
    ELSE ( IF Head(texts) = <<>> THEN << <<>> >> ELSE Head(texts) )
         \o JoinTexts(Tail(texts))

\* the keys of nltk.FreqDist(words), in order of first occurrence
RECURSIVE FirstOccurrences(_)
FirstOccurrences(words) ==
    IF words = <<>> THEN <<>>
    ELSE LET before == FirstOccurrences(SubSeq(words, 1, Len(words) - 1))
             last == words[Len(words)]
         IN  IF last \in Range(before) THEN before ELSE Append(before, last)

Count(words, w) == Cardinality({ i \in DOMAIN words : words[i] = w })

\* pd.DataFrame(freq_dist.items(), columns=['word', 'frequency'])
FreqRows(words) ==
    LET keys == FirstOccurrences(words)
    IN  [i \in DOMAIN keys |-> [word |-> keys[i], frequency |-> Count(words, keys[i])]]

\* sort_values(by='frequency', ascending=False): rows of equal frequency
\* keep the order they had
RECURSIVE SortByFrequency(_)
SortByFrequency(rows) ==
    IF rows = <<>> THEN <<>>
    ELSE LET top == CHOOSE i \in DOMAIN rows :
                      /\ \A j \in DOMAIN rows : rows[j].frequency <= rows[i].frequency
                      /\ \A j \in 1..(i - 1) : rows[j].frequency < rows[i].frequency
         IN  << rows[top] >>
             \o SortByFrequency(SubSeq(rows, 1, top - 1) \o SubSeq(rows, top + 1, Len(rows)))

generate_word_frequency(column) ==
    LET all_text == strip_html_tags(LowerText(JoinTexts(column)))
        words == word_tokenize(all_text)
    IN  SortByFrequency(FreqRows(words))

\* Threshold for low frequency words
LOW_FREQUENCY_THRESHOLD == 2

\* the filter with < in place of <=
UnusualWordsOf_Strict(freq_df) ==
    { freq_df[i].word : i \in { j \in DOMAIN freq_df :
                                  freq_df[j].frequency < LOW_FREQUENCY_THRESHOLD } }

\* set(frequency_df[frequency_df['frequency'] <= LOW_FREQUENCY_THRESHOLD]['word'].tolist())
UnusualWordsOf(freq_df) ==
    { freq_df[i].word : i \in { j \in DOMAIN freq_df :
                                  freq_df[j].frequency <= LOW_FREQUENCY_THRESHOLD } }

\* lambda x: bool(set(word.lower() for word in x) & unusual_words)
HasUnusualProperNoun(x, unusual) == ({ lower(word) : word \in Range(x) } \cap unusual) # {}

(***************************************************************************)
(* The notebook run: state                                                 *)
(***************************************************************************)
VARIABLES
    pc,             \* the statement the run is at
    error,          \* the exception that stopped the run, or "none"
    missing,        \* NLTK corpora that are not installed (download failed)
    loaded,         \* NLTK corpora read so far (corpus readers load lazily)
    frame,          \* what the name df is bound to
    df,             \* the DataFrame: column name -> column
    series,         \* the rows the running apply() has produced so far
    frequency_df,   \* rows (word, frequency) of the frequency DataFrame
    unusual_words,  \* the set unusual_words
    defined,        \* the corpus-wide names assigned so far
    builds,         \* number of completed calls of generate_word_frequency
    token,          \* a token handed to is_valid_roman on its own
    checked,        \* whether the function called on its own has returned
    valid,          \* the boolean it returned, or that was derived from its list
    empty_tagging,  \* what the installed tagger does with the empty word
    input_text,     \* a text handed to a detector function on its own
    method,         \* the method argument of find_non_english_word
    result          \* the list the detector function returned

vars == << pc, error, missing, loaded, frame, df, series, frequency_df,
           unusual_words, defined, builds, token, checked, valid,
           empty_tagging, input_text, method, result >>

\* the NLTK resources the imports cell asks nltk.download for
Tokenizer == "punkt_tab"
Tagger == "averaged_perceptron_tagger_eng"
Lexicons == { "stopwords", "words", "wordnet" }
Resources == Lexicons \cup { Tokenizer, Tagger }
Records == 1..NumRecords

\* a cell order in which the per-record unusual-proper-noun pass comes before
\* the corpus-wide aggregation
CellOrder_UnusualPassFirst ==
    << "imports", "constants", "load", "original_question", "strip_html_tags",
       "strip_quotes", "has_spelled_number", "roman_text", "has_roman_numeral",
       "has_numerical_value", "has_number", "non_english_words",
       "has_non_english_word", "proper_nouns", "has_unusual_proper_noun",
       "frequency_df", "unusual_words", "done" >>

\* the statements of the notebook, top to bottom (the sampling cells, which
\* only print, are left out)
CellOrder ==
    << "imports", "constants", "load", "original_question", "strip_html_tags",
       "strip_quotes", "has_spelled_number", "roman_text", "has_roman_numeral",
       "has_numerical_value", "has_number", "non_english_words",
       "has_non_english_word", "proper_nouns", "frequency_df", "unusual_words",
       "has_unusual_proper_noun", "done" >>

CellAfter(cell) == CellOrder[IndexIn(CellOrder, cell) + 1]

Has(column) == column \in DOMAIN df

\* the row the running apply() is at, and the value of a column in it
Row == Len(series) + 1
At(column) == df[column][Row]

At_(cell) == pc = cell /\ error = "none"

\* an exception ends the run where it is
Raise(e) == error' = e /\ UNCHANGED << pc, df, series >>

\* apply() has computed value for the current row; after the last row the
\* resulting Series is assigned to df[column]
Store(column, value) ==
    /\ error' = error
    /\ IF Row < NumRecords
       THEN /\ series' = Append(series, value)
            /\ UNCHANGED << pc, df >>
       ELSE /\ df' = (column :> Append(series, value)) @@ df
            /\ series' = <<>>
            /\ pc' = CellAfter(pc)

tokenState == << token, checked, valid >>
detectorState == << input_text, method, result >>
corpusState == << frequency_df, unusual_words, defined, builds >>

Init ==
    /\ pc = "imports"
    /\ error = "none"
    /\ missing \in SUBSET Resources
    /\ loaded = {}
    /\ frame = "undefined"
    /\ df = << >>
    /\ series = << >>
    /\ frequency_df = << >>
    /\ unusual_words = {}
    /\ defined = {}
    /\ builds = 0
    /\ token = << >>
    /\ checked = FALSE
    /\ valid = FALSE
    /\ empty_tagging \in EmptyWordTagging
    /\ input_text = << >>
    /\ method = "combined"
    /\ result = << >>

(***************************************************************************)
(* The notebook run: statements                                            *)
(***************************************************************************)
\* nltk.download(..., quiet=True) reports a failed download by its return
\* value, which is dropped; WordNetLemmatizer() reads nothing
ImportLibraries ==
    /\ At_("imports")
    /\ pc' = CellAfter(pc)
    /\ UNCHANGED << error, missing, loaded, frame, df, series, corpusState, tokenState, detectorState, empty_tagging >>

\* STOPWORDS = set(stopwords.words("english"));
\* ENGLISH_VOCAB = set(w.lower() for w in words.words())
DefineConstants ==
    /\ At_("constants")
    /\ IF "stopwords" \in missing
       THEN error' = "LookupError" /\ UNCHANGED << pc, loaded, defined >>
       ELSE IF "words" \in missing
       THEN /\ error' = "LookupError"
            /\ loaded' = loaded \cup { "stopwords" }
            /\ defined' = defined \cup { "STOPWORDS" }
            /\ pc' = pc
       ELSE /\ error' = error
            /\ loaded' = loaded \cup { "stopwords", "words" }
            /\ defined' = defined \cup { "STOPWORDS", "ENGLISH_VOCAB" }
            /\ pc' = CellAfter(pc)
    /\ UNCHANGED << missing, frame, df, series, frequency_df, unusual_words,
                    builds, tokenState, detectorState, empty_tagging >>

\* df = load_json_data(JSON_FILE_PATH): a DataFrame with a question column,
\* or None when pd.read_json raises ValueError
LoadDataset ==
    /\ At_("load")
    /\ \/ \E column \in [Records -> Questions] :
             /\ frame' = "DataFrame"
             /\ df' = ("question" :> column)
       \/ /\ frame' = "None"
          /\ df' = df
    /\ pc' = CellAfter(pc)
    /\ UNCHANGED << error, missing, loaded, series, corpusState, tokenState, detectorState, empty_tagging >>

\* df['original_question'] = df['question'].copy()
CopyOriginalQuestion ==
    /\ At_("original_question")
    /\ IF frame = "None"
       THEN Raise("TypeError")
       ELSE /\ df' = ("original_question" :> df["question"]) @@ df
            /\ pc' = CellAfter(pc)
            /\ UNCHANGED << error, series >>
    /\ UNCHANGED << missing, loaded, frame, corpusState, tokenState, detectorState, empty_tagging >>

\* df['question'] = df['question'].apply(strip_html_tags): re.sub raises
\* TypeError on a value that is not a string
StripHtmlTags ==
    /\ At_("strip_html_tags")
    /\ IF ~IsStr(At("question"))
       THEN Raise("TypeError")
       ELSE Store("question", strip_html_tags(At("question")))
    /\ UNCHANGED << missing, loaded, frame, corpusState, tokenState, detectorState, empty_tagging >>

\* df['question'] = df['question'].apply(strip_quotes)
StripQuotes ==
    /\ At_("strip_quotes")
    /\ Store("question", strip_quotes(At("question")))
    /\ UNCHANGED << missing, loaded, frame, corpusState, tokenState, detectorState, empty_tagging >>

\* df['has_spelled_number'] = df['question'].apply(...): the first call of
\* nltk.word_tokenize; it loads the Punkt model, for an empty text too, and
\* raises LookupError when the model is not installed
CurateSpelledNumber ==
    /\ At_("has_spelled_number")
    /\ IF Tokenizer \in missing
       THEN Raise("LookupError")
       ELSE Store("has_spelled_number", HasSpelledNumber(At("question")))
    /\ UNCHANGED << missing, loaded, frame, corpusState, tokenState, detectorState, empty_tagging >>

\* df['roman_text'] = df['question'].apply(lambda x: find_valid_roman_numerals(x)):
\* is_noun makes the first call of nltk.pos_tag, which loads the tagger
\* model and raises LookupError when it is not installed
CurateRomanText ==
    /\ At_("roman_text")
    /\ IF find_valid_roman_numerals_tags(At("question")) /\ Tagger \in missing
       THEN Raise("LookupError")
       ELSE IF find_valid_roman_numerals_raises(At("question"), empty_tagging)
       THEN Raise(empty_tagging)
       ELSE Store("roman_text", find_valid_roman_numerals(At("question"), empty_tagging))
    /\ UNCHANGED << missing, loaded, frame, corpusState, tokenState, detectorState, empty_tagging >>

\* df['has_roman_numeral'] = df['roman_text'].apply(lambda x: len(x) > 0)
CurateHasRomanNumeral ==
    /\ At_("has_roman_numeral")
    /\ Store("has_roman_numeral", Len(At("roman_text")) > 0)
    /\ UNCHANGED << missing, loaded, frame, corpusState, tokenState, detectorState, empty_tagging >>

\* df['has_numerical_value'] = df['question'].apply(...)
CurateNumericalValue ==
    /\ At_("has_numerical_value")
    /\ Store("has_numerical_value", HasNumericalValue(At("question")))
    /\ UNCHANGED << missing, loaded, frame, corpusState, tokenState, detectorState, empty_tagging >>

\* the union without the Roman-numeral flag
CombineNumberFlags_NoRoman ==
    /\ At_("has_number")
    /\ df' = ("has_number" :>
                [r \in Records |-> \/ df["has_spelled_number"][r]
                                   \/ df["has_numerical_value"][r]]) @@ df
    /\ pc' = CellAfter(pc)
    /\ UNCHANGED << error, series, missing, loaded, frame, corpusState, tokenState, detectorState, empty_tagging >>

\* df['has_number'] = df['has_spelled_number'] | df['has_numerical_value']
\*                    | df['has_roman_numeral']
CombineNumberFlags ==
    /\ At_("has_number")
    /\ df' = ("has_number" :>
                [r \in Records |-> \/ df["has_spelled_number"][r]
                                   \/ df["has_numerical_value"][r]
                                   \/ df["has_roman_numeral"][r]]) @@ df
    /\ pc' = CellAfter(pc)
    /\ UNCHANGED << error, series, missing, loaded, frame, corpusState, tokenState, detectorState, empty_tagging >>

\* df['non_english_words'] = df['question'].apply(lambda x:
\*     find_non_english_word(x, method="combined", stopword_list=STOPWORDS, ...))
\* nltk.pos_tag loads the tagger model, for an empty token list too, and
\* raises LookupError when it is not installed.  The first lemmatize() call
\* reads the WordNet corpus and raises LookupError when it is not installed.
CurateNonEnglishWords ==
    /\ At_("non_english_words")
    /\ IF Tagger \in missing
       THEN Raise("LookupError") /\ loaded' = loaded
       ELSE IF find_non_english_word_reads_wordnet(At("question"), STOPWORDS)
               /\ "wordnet" \in missing
       THEN Raise("LookupError") /\ loaded' = loaded
       ELSE /\ Store("non_english_words",
                     find_non_english_word(At("question"), "combined", STOPWORDS))
            /\ loaded' = IF find_non_english_word_reads_wordnet(At("question"), STOPWORDS)
                         THEN loaded \cup { "wordnet" } ELSE loaded
    /\ UNCHANGED << missing, frame, corpusState, tokenState, detectorState, empty_tagging >>

\* a flag that stays set once an earlier record has set it
CurateHasNonEnglishWord_Sticky ==
    /\ At_("has_non_english_word")
    /\ Store("has_non_english_word",
             Len(At("non_english_words")) > 0 \/ (\E r \in DOMAIN series : series[r]))
    /\ UNCHANGED << missing, loaded, frame, corpusState, tokenState, detectorState,
                    empty_tagging >>

\* df['has_non_english_word'] = df['non_english_words'].apply(lambda x: len(x) > 0)
CurateHasNonEnglishWord ==
    /\ At_("has_non_english_word")
    /\ Store("has_non_english_word", Len(At("non_english_words")) > 0)
    /\ UNCHANGED << missing, loaded, frame, corpusState, tokenState, detectorState, empty_tagging >>

\* the arrangements of a list
Arrangements(x) ==
    { y \in [DOMAIN x -> Range(x)] : \A v \in Range(x) : Count(y, v) = Count(x, v) }

\* the proper nouns collected in no particular order
CurateProperNouns_AnyOrder ==
    /\ At_("proper_nouns")
    /\ \E nouns \in Arrangements(find_proper_nouns(At("question"))) :
          Store("proper_nouns", nouns)
    /\ UNCHANGED << missing, loaded, frame, corpusState, tokenState, detectorState,
                    empty_tagging >>

\* df['proper_nouns'] = df['question'].apply(lambda x: find_proper_nouns(x, debug=False))
CurateProperNouns ==
    /\ At_("proper_nouns")
    /\ Store("proper_nouns", find_proper_nouns(At("question")))
    /\ UNCHANGED << missing, loaded, frame, corpusState, tokenState, detectorState, empty_tagging >>

\* frequency_df = generate_word_frequency(df, 'question')
BuildFrequencyIndex ==
    /\ At_("frequency_df")
    /\ frequency_df' = generate_word_frequency(df["question"])
    /\ defined' = defined \cup { "frequency_df" }
    /\ builds' = builds + 1
    /\ pc' = CellAfter(pc)
    /\ UNCHANGED << error, missing, loaded, frame, df, series, unusual_words, tokenState, detectorState, empty_tagging >>

\* unusual_words = set(frequency_df[frequency_df['frequency'] <= ...]['word'].tolist())
DeriveUnusualWords ==
    /\ At_("unusual_words")
    /\ unusual_words' = UnusualWordsOf(frequency_df)
    /\ defined' = defined \cup { "unusual_words" }
    /\ pc' = CellAfter(pc)
    /\ UNCHANGED << error, missing, loaded, frame, df, series, frequency_df, builds,
                    tokenState, detectorState, empty_tagging >>

\* the index rebuilt for every record
CurateUnusualProperNoun_Rebuilding ==
    /\ At_("has_unusual_proper_noun")
    /\ Store("has_unusual_proper_noun",
             HasUnusualProperNoun(At("proper_nouns"),
                                  UnusualWordsOf(generate_word_frequency(df["question"]))))
    /\ frequency_df' = generate_word_frequency(df["question"])
    /\ builds' = builds + 1
    /\ UNCHANGED << missing, loaded, frame, unusual_words, defined, tokenState, detectorState, empty_tagging >>

\* the matched words taken out of the set (an in-place intersection)
CurateUnusualProperNoun_Consuming ==
    /\ At_("has_unusual_proper_noun")
    /\ Store("has_unusual_proper_noun",
             HasUnusualProperNoun(At("proper_nouns"), unusual_words))
    /\ unusual_words' = unusual_words \ { lower(word) : word \in Range(At("proper_nouns")) }
    /\ UNCHANGED << missing, loaded, frame, frequency_df, defined, builds, tokenState, detectorState, empty_tagging >>

\* a proper noun counted as unusual unless the table records it above the
\* threshold
CurateUnusualProperNoun_UnlessFrequent ==
    /\ At_("has_unusual_proper_noun")
    /\ Store("has_unusual_proper_noun",
             \E word \in Range(At("proper_nouns")) :
                 \A i \in DOMAIN frequency_df :
                     frequency_df[i].word = lower(word)
                        => frequency_df[i].frequency <= LOW_FREQUENCY_THRESHOLD)
    /\ UNCHANGED << missing, loaded, frame, corpusState, tokenState, detectorState,
                    empty_tagging >>

\* df['has_unusual_proper_noun'] = df['proper_nouns'].apply(lambda x: ...)
CurateUnusualProperNoun ==
    /\ At_("has_unusual_proper_noun")
    /\ Store("has_unusual_proper_noun",
             HasUnusualProperNoun(At("proper_nouns"), unusual_words))
    /\ UNCHANGED << missing, loaded, frame, corpusState, tokenState, detectorState, empty_tagging >>

Next ==
    \/ ImportLibraries
    \/ DefineConstants
    \/ LoadDataset
    \/ CopyOriginalQuestion
    \/ StripHtmlTags
    \/ StripQuotes
    \/ CurateSpelledNumber
    \/ CurateRomanText
    \/ CurateHasRomanNumeral
    \/ CurateNumericalValue
    \/ CombineNumberFlags
    \/ CurateNonEnglishWords
    \/ CurateHasNonEnglishWord
    \/ CurateProperNouns
    \/ BuildFrequencyIndex
    \/ DeriveUnusualWords
    \/ CurateUnusualProperNoun

Spec == Init /\ [][Next]_vars

(***************************************************************************)
(* is_valid_roman on its own: every token over the alphabet below, up to   *)
(* MaxTokenLen characters, is handed to the function once.                 *)
(***************************************************************************)
RomanAlphabet == { "I", "V", "X", "L", "C", "D", "M", "i", "a", "\n" }

TokensUpTo(n) == UNION { [1..k -> RomanAlphabet] : k \in 0..n }

InitRoman ==
    /\ token \in TokensUpTo(MaxTokenLen)
    /\ checked = FALSE
    /\ valid = FALSE
    /\ pc = "is_valid_roman"
    /\ error = "none"
    /\ missing = {}
    /\ loaded = {}
    /\ frame = "undefined"
    /\ df = << >>
    /\ series = << >>
    /\ frequency_df = << >>
    /\ unusual_words = {}
    /\ defined = {}
    /\ builds = 0
    /\ empty_tagging = "NN"
    /\ input_text = << >>
    /\ method = "combined"
    /\ result = << >>

\* valid = is_valid_roman(token)
ValidateToken ==
    /\ pc = "is_valid_roman"
    /\ ~checked
    /\ checked' = TRUE
    /\ valid' = is_valid_roman(token)
    /\ UNCHANGED << pc, error, missing, loaded, frame, df, series, corpusState, token,
                    detectorState, empty_tagging >>

NextRoman == ValidateToken

SpecRoman == InitRoman /\ [][NextRoman]_vars

(***************************************************************************)
(* The detector functions on their own: find_valid_roman_numerals and      *)
(* find_non_english_word are called once on every text of up to MaxTextLen *)
(* words of the vocabulary below and on one longer sentence, with every    *)
(* resource installed.                                                     *)
(***************************************************************************)
Vocabulary == { wIV, wTV, wVIII, wVIIIComma, wLT, wthe, wdept, waal, wiv, wtwos }

TextsUpTo(n) == UNION { [1..k -> Vocabulary] : k \in 0..n }

\* a sentence of ordinary length
HenryText == << <<"H","e","n","r","y">>, wVIII, <<"r","u","l","e","d">>,
               <<"E","n","g","l","a","n","d">> >>

\* the documented values of the method argument, and a string that is none of them
Methods == { "wordnet", "en_dict", "combined", "other" }

InitDetectors ==
    /\ input_text \in TextsUpTo(MaxTextLen) \cup { HenryText }
    /\ \/ /\ pc = "find_valid_roman_numerals"
          /\ empty_tagging \in EmptyWordTagging
          /\ method = "combined"
       \/ /\ pc = "find_non_english_word"
          /\ empty_tagging = "NN"
          /\ method \in Methods
    /\ result = << >>
    /\ checked = FALSE
    /\ valid = FALSE
    /\ token = << >>
    /\ error = "none"
    /\ missing = {}
    /\ loaded = Resources
    /\ frame = "undefined"
    /\ df = << >>
    /\ series = << >>
    /\ frequency_df = << >>
    /\ unusual_words = {}
    /\ defined = { "STOPWORDS", "ENGLISH_VOCAB" }
    /\ builds = 0

\* result = find_valid_roman_numerals(input_text)
FindValidRomanNumerals ==
    /\ pc = "find_valid_roman_numerals"
    /\ error = "none"
    /\ ~checked
    /\ IF find_valid_roman_numerals_raises(input_text, empty_tagging)
       THEN /\ error' = empty_tagging
            /\ UNCHANGED << checked, result >>
       ELSE /\ result' = find_valid_roman_numerals(input_text, empty_tagging)
            /\ checked' = TRUE
            /\ error' = error
    /\ UNCHANGED << pc, missing, loaded, frame, df, series, corpusState, token, valid,
                    input_text, method, empty_tagging >>

\* result = find_non_english_word(input_text, method=method, stopword_list=STOPWORDS)
FindNonEnglishWord ==
    /\ pc = "find_non_english_word"
    /\ ~checked
    /\ result' = find_non_english_word(input_text, method, STOPWORDS)
    /\ checked' = TRUE
    /\ UNCHANGED << pc, error, missing, loaded, frame, df, series, corpusState, token,
                    valid, input_text, method, empty_tagging >>

\* lambda x: len(x) > 0, applied to the list find_non_english_word returned
FlagNonEnglishWord ==
    /\ pc = "find_non_english_word"
    /\ checked
    /\ pc' = "has_non_english_word"
    /\ valid' = (Len(result) > 0)
    /\ UNCHANGED << error, missing, loaded, frame, df, series, corpusState, token,
                    checked, detectorState, empty_tagging >>

NextDetectors ==
    \/ FindValidRomanNumerals
    \/ FindNonEnglishWord
    \/ FlagNonEnglishWord

SpecDetectors == InitDetectors /\ [][NextDetectors]_vars

(***************************************************************************)
(* Properties                                                              *)
(***************************************************************************)
\* some row has been evaluated by the apply() that produces the column
Started(column) == Has(column) \/ (pc = column /\ series # << >>)

NumberColumns == { "has_spelled_number", "roman_text", "has_roman_numeral",
                   "has_numerical_value" }
DetectorColumns == NumberColumns \cup { "non_english_words", "has_non_english_word",
                                        "proper_nouns", "has_unusual_proper_noun" }
AnyRecordEvaluated == \E column \in DetectorColumns : Started(column)

\* the frequency the table records for a word, 0 when it has no row
FrequencyOf(w) ==
    IF \E i \in DOMAIN frequency_df : frequency_df[i].word = w
    THEN frequency_df[CHOOSE i \in DOMAIN frequency_df : frequency_df[i].word = w].frequency
    ELSE 0
TableWords == { frequency_df[i].word : i \in DOMAIN frequency_df }

\* the lower-case tokens of one record's own cleaned text, and how often a
\* word occurs among those of all records
RecordTokens(r) == word_tokenize(LowerText(df["question"][r]))
RECURSIVE CountInFirst(_, _)
CountInFirst(n, w) ==
    IF n = 0 THEN 0 ELSE Count(RecordTokens(n), w) + CountInFirst(n - 1, w)
CorpusCount(w) == CountInFirst(NumRecords, w)
CorpusWords == UNION { Range(RecordTokens(r)) : r \in Records }

C2_AggregationPrecedesUnusualPass ==
    (pc = "has_unusual_proper_noun" \/ Started("has_unusual_proper_noun"))
        => /\ { "frequency_df", "unusual_words" } \subseteq defined
           /\ builds >= 1

C2_Witness ==
    /\ Has("has_unusual_proper_noun")
    /\ \E r \in Records : df["has_unusual_proper_noun"][r]

\* C3: once frequency_df and unusual_words have been computed, no step of
\* the run (in particular no per-record evaluation) changes either.
C3_IndexFrozen ==
    [][ "unusual_words" \in defined
          => frequency_df' = frequency_df /\ unusual_words' = unusual_words ]_vars

C3_Witness ==
    /\ pc = "done"
    /\ unusual_words # {}
    /\ \E r \in Records : df["has_unusual_proper_noun"][r]
    /\ \E r \in Records : ~df["has_unusual_proper_noun"][r]

\* C4: for every record, has_number is the disjunction of has_spelled_number,
\* has_roman_numeral and has_numerical_value.
C4_HasNumberIsUnion ==
    Has("has_number") =>
        \A r \in Records :
            df["has_number"][r] <=> ( \/ df["has_spelled_number"][r]
                                      \/ df["has_roman_numeral"][r]
                                      \/ df["has_numerical_value"][r] )

C4_Witness ==
    /\ Has("has_number")
    /\ \E r \in Records : /\ df["has_number"][r]
                          /\ df["has_roman_numeral"][r]
                          /\ ~df["has_spelled_number"][r]
                          /\ ~df["has_numerical_value"][r]
    /\ \E r \in Records : ~df["has_number"][r]

\* the strings of the Roman-numeral grammar (upper case)
RomanNumerals ==
    { m \o h \o t \o u : m \in RomanThousands, h \in RomanHundreds,
                         t \in RomanTens, u \in RomanUnits }

\* C5 as stated: is_valid_roman(token) is true iff the whole token is,
\* without regard to case, a string of the Roman-numeral grammar, and it is
\* false for the empty string.
C5_ValidIffGrammarAndNotEmpty ==
    checked => ( valid <=> (upper(token) \in RomanNumerals /\ token # << >>) )

\* C6 as stated: the frequency recorded for every word equals the number of
\* its occurrences among the lower-case tokens of all records' own texts.
C6_FrequencyIsExactCount ==
    "frequency_df" \in defined =>
        \A w \in CorpusWords \cup TableWords : FrequencyOf(w) = CorpusCount(w)

C8_UnusualProperNounFlag ==
    Has("has_unusual_proper_noun") =>
        \A r \in Records :
            LET nouns == { lower(word) : word \in Range(df["proper_nouns"][r]) }
                flag == df["has_unusual_proper_noun"][r]
            IN  /\ flag <=> (nouns \cap unusual_words) # {}
                /\ (\E n \in nouns : CorpusCount(n) = 1) => flag
                /\ (nouns # {} /\ \A n \in nouns : CorpusCount(n) = 5) => ~flag

\* C9 as stated: a record whose question field is not text raises no error
\* (it is treated as empty text and the batch goes on).
C9_MalformedRecordRaisesNothing ==
    (Has("question") /\ \E r \in Records : ~IsStr(df["question"][r])) => error = "none"

\* the LookupError that stopped the run came from a lexicon (the stopword
\* list, the wordlist or WordNet), not from the tokenizer or the tagger
LexiconFailed ==
    /\ error = "LookupError"
    /\ \/ pc = "constants"
       \/ pc = "non_english_words" /\ Tagger \notin missing

\* C10 as stated: when a lexicon fails to load (LookupError), no record has
\* been evaluated by any detector.
C10_LexiconFailureBeforeAnyRecord ==
    LexiconFailed => ~AnyRecordEvaluated

\* C11 as stated: when tagging fails for a record in the non-English or
\* proper-noun detector (here: the tagger model is not installed, so
\* nltk.pos_tag raises), the failure is contained: the run goes on, the
\* record's non-English word list and proper-noun list are empty and its
\* has_non_english_word and has_unusual_proper_noun flags are false.
C11_TaggingFailureContained ==
    Tagger \in missing =>
        /\ pc \in { "non_english_words", "proper_nouns" } => error = "none"
        /\ Has("non_english_words") => \A r \in Records : df["non_english_words"][r] = << >>
        /\ Has("has_non_english_word") => \A r \in Records : ~df["has_non_english_word"][r]
        /\ Has("proper_nouns") => \A r \in Records : df["proper_nouns"][r] = << >>
        /\ Has("has_unusual_proper_noun")
              => \A r \in Records : ~df["has_unusual_proper_noun"][r]

NumberCells == { "has_spelled_number", "roman_text", "has_roman_numeral",
                 "has_numerical_value", "has_number" }

\* C12 as stated: with the tokenizer installed, the number detectors raise
\* for no text: no statement of the number cell stops the run with an
\* exception and every record gets a list and boolean flags, also when a short
\* upper-case token follows a token made only of symbols or when the tagger
\* fails on the preceding word (find_valid_roman_numerals then returns a
\* list, the noun check counting as "not a noun").
C12_NumberDetectorsNeverRaise ==
    Tokenizer \notin missing =>
        /\ pc \in NumberCells => error = "none"
        /\ Has("has_number") =>
              \A r \in Records :
                  /\ df["roman_text"][r] \in Seq(Range(df["question"][r]))
                  /\ { df["has_spelled_number"][r], df["has_roman_numeral"][r],
                       df["has_numerical_value"][r], df["has_number"][r] }
                        \subseteq BOOLEAN

\* what the statement producing a column yields for record r when it is
\* computed from the record's own cleaned text q and the frozen set
\* unusual alone
ValueFrom(column, q, unusual) ==
    CASE column = "has_spelled_number" -> HasSpelledNumber(q)
      [] column = "roman_text" -> find_valid_roman_numerals(q, empty_tagging)
      [] column = "has_roman_numeral"
            -> Len(find_valid_roman_numerals(q, empty_tagging)) > 0
      [] column = "has_numerical_value" -> HasNumericalValue(q)
      [] column = "has_number"
            -> \/ HasSpelledNumber(q)
               \/ HasNumericalValue(q)
               \/ Len(find_valid_roman_numerals(q, empty_tagging)) > 0
      [] column = "non_english_words" -> find_non_english_word(q, "combined", STOPWORDS)
      [] column = "has_non_english_word"
            -> Len(find_non_english_word(q, "combined", STOPWORDS)) > 0
      [] column = "proper_nouns" -> find_proper_nouns(q)
      [] column = "has_unusual_proper_noun"
            -> HasUnusualProperNoun(find_proper_nouns(q), unusual)

ResultColumns == DetectorColumns \cup { "has_number" }

CleanedQuestion(r) == strip_quotes(strip_html_tags(df["original_question"][r]))
CleanedColumn == [r \in Records |-> CleanedQuestion(r)]

RomanReturned == pc = "find_valid_roman_numerals" /\ checked

\* the conditions under which a short upper-case token at index i (counted
\* from 1 here) is a Roman numeral: it is not the first token, the token
\* before it does not end in ',', '.', ';' or ':', that token without its
\* symbols is tagged as a noun on its own, and the token itself is valid
ShortTokenAccepted(tokens, i) ==
    /\ i > 1
    /\ tokens[i - 1][Len(tokens[i - 1])] \notin { ",", ".", ";", ":" }
    /\ LET stripped == SelectSeq(tokens[i - 1], IsWordChar)
       IN  IF stripped = << >> THEN TagIsNoun(empty_tagging)
           ELSE TagIsNoun(TagOf(stripped))
    /\ is_valid_roman(tokens[i])

AcceptedIndexes(tokens) ==
    { i \in DOMAIN tokens :
        /\ isupper(tokens[i])
        /\ IF Len(tokens[i]) <= 2 THEN ShortTokenAccepted(tokens, i)
           ELSE is_valid_roman(tokens[i]) }

\* C16: an entirely upper-case token of more than 2 characters is in the
\* returned list iff the token as split passes is_valid_roman, whatever its
\* index and the token before it; the list holds the accepted tokens in
\* text order, with duplicates, as they are written; "Henry VIII ruled
\* England" yields ["VIII"].
C16_LongTokenRule ==
    /\ RomanReturned =>
          LET tokens == split(input_text)
              accepted == AcceptedIndexes(tokens)
          IN  /\ \A i \in DOMAIN tokens :
                    (isupper(tokens[i]) /\ Len(tokens[i]) > 2) =>
                        (tokens[i] \in Range(result) <=> is_valid_roman(tokens[i]))
              /\ Len(result) = Cardinality(accepted)
              /\ \A k \in DOMAIN result :
                    \E i \in accepted :
                        /\ Cardinality({ j \in accepted : j <= i }) = k
                        /\ result[k] = tokens[i]
    /\ (pc = "find_valid_roman_numerals" /\ input_text = HenryText) =>
          /\ error = "none"
          /\ checked => result = << wVIII >>

C16_Witness ==
    /\ RomanReturned
    /\ input_text = << wVIII, wVIIIComma, wVIII >>
    /\ result = << wVIII, wVIII >>

\* find_non_english_word(input_text, method, STOPWORDS) has returned result
NonEnglishReturned ==
    pc \in { "find_non_english_word", "has_non_english_word" } /\ checked

\* a word is judged known English in a mode: the loop body does not append it
KnownEnglish(word, mode) == ~FlaggedNonEnglish(word, mode)

\* C17: for every retained word, method "combined" judges it known English
\* iff method "wordnet" or method "en_dict" does; hence the list returned
\* with "combined" is, in order, the list of the tokens flagged with
\* "wordnet" that are also flagged with "en_dict".
C17_CombinedIsEither ==
    (NonEnglishReturned /\ method = "combined") =>
        LET by_wordnet == find_non_english_word(input_text, "wordnet", STOPWORDS)
            by_en_dict == find_non_english_word(input_text, "en_dict", STOPWORDS)
            tokens == filtered_tokens(input_text, STOPWORDS)
        IN  /\ \A i \in DOMAIN tokens :
                  KnownEnglish(tokens[i][1], "combined")
                    <=> ( \/ KnownEnglish(tokens[i][1], "wordnet")
                          \/ KnownEnglish(tokens[i][1], "en_dict") )
            /\ result = SelectSeq(by_wordnet, LAMBDA w : w \in Range(by_en_dict))

C17_Witness ==
    /\ NonEnglishReturned
    /\ method = "combined"
    /\ input_text = << waal, wdept, wiv >>
    /\ result = << wdept >>

\* the verdict of the lexicons on a lower-case lemma and its surface word:
\* known to WordNet, known to the wordlist (lemma as it is, lower-cased,
\* upper-cased, or the lower-cased surface word), or known to either
LexiconOracle(lemma, word, mode) ==
    LET sense == lemma \in WordNetLemmas
        listed == { lemma, lower(lemma), upper(lemma), lower(word) } \cap ENGLISH_VOCAB # {}
    IN  CASE mode = "wordnet" -> sense
          [] mode = "en_dict" -> listed
          [] mode = "combined" -> sense \/ listed

ClosedClassTags == { "NNP", "NNPS", "IN", "DT", "WP", "WP$", "WRB", "PRP", "PRP$",
                     "CC", "TO", "MD", "EX", "UH" }

\* C18: find_non_english_word returns exactly the tagged tokens, in
\* sentence order with their casing and duplicates, that are alphabetic,
\* whose lower-case form is no stopword, whose tag is not a closed-class
\* tag and whose lower-case lemma the lexicons do not know in the mode
\* given; no stopword, non-alphabetic token or token with an excluded tag
\* is in the list; and has_non_english_word is true iff the list is not empty.
C18_NonEnglishWordList ==
    (NonEnglishReturned /\ method \in { "wordnet", "en_dict", "combined" }) =>
        LET tagged == pos_tag(word_tokenize(input_text))
            flagged == SelectSeq(tagged,
                         LAMBDA wt : /\ isalpha(wt[1])
                                     /\ lower(wt[1]) \notin StopwordsCorpus
                                     /\ wt[2] \notin ClosedClassTags
                                     /\ ~LexiconOracle(lemmatize(lower(wt[1])), wt[1], method))
        IN  /\ result = [i \in DOMAIN flagged |-> flagged[i][1]]
            /\ \A i \in DOMAIN result :
                  /\ isalpha(result[i])
                  /\ lower(result[i]) \notin StopwordsCorpus
                  /\ \A j \in DOMAIN tagged :
                        tagged[j][1] = result[i] => tagged[j][2] \notin ClosedClassTags
            /\ pc = "has_non_english_word" => (valid <=> result # << >>)

C18_Witness ==
    /\ pc = "has_non_english_word"
    /\ valid
    /\ method = "en_dict"
    /\ input_text = << wthe, wtwos, wdept >>
    /\ result = << wdept >>

\* C20: called with a method that is none of "wordnet", "en_dict" and
\* "combined", find_non_english_word raises nothing and returns the empty
\* list for every text, so has_non_english_word is false.
C20_UnknownMethodFlagsNothing ==
    (pc \in { "find_non_english_word", "has_non_english_word" }
       /\ method \notin { "wordnet", "en_dict", "combined" }) =>
        /\ error = "none"
        /\ checked => result = << >>
        /\ pc = "has_non_english_word" => ~valid

C20_Witness ==
    /\ pc = "has_non_english_word"
    /\ method = "other"
    /\ input_text = << wdept, wTV, wiv >>
    /\ result = << >>
    /\ ~valid

\* C19: every word of unusual_words has a row in the frequency table, with
\* a frequency of at least 1 (and at most the threshold), and occurs in the
\* corpus; a proper noun whose lower-case form has no row in the table is
\* not in unusual_words, and a record is flagged has_unusual_proper_noun
\* only if the lower-case form of one of its proper nouns has a recorded
\* frequency between 1 and the threshold.
C19_UnusualWordsOccur ==
    /\ "unusual_words" \in defined =>
          \A w \in unusual_words :
              /\ w \in TableWords
              /\ 1 <= FrequencyOf(w) /\ FrequencyOf(w) <= LOW_FREQUENCY_THRESHOLD
              /\ CorpusCount(w) >= 1
    /\ Has("has_unusual_proper_noun") =>
          \A r \in Records :
              /\ \A word \in Range(df["proper_nouns"][r]) :
                    FrequencyOf(lower(word)) = 0 => lower(word) \notin unusual_words
              /\ df["has_unusual_proper_noun"][r] =>
                    \E word \in Range(df["proper_nouns"][r]) :
                        /\ 1 <= FrequencyOf(lower(word))
                        /\ FrequencyOf(lower(word)) <= LOW_FREQUENCY_THRESHOLD

C19_Witness ==
    /\ pc = "done"
    /\ \E r \in Records :
          /\ df["proper_nouns"][r] # << >>
          /\ \A word \in Range(df["proper_nouns"][r]) : FrequencyOf(lower(word)) = 0
          /\ ~df["has_unusual_proper_noun"][r]
    /\ unusual_words # {}

\* the two-variant wordlist test: the lemma or the lower-cased surface word
\* is in the wordlist
InWordlistTwoVariants(word, lemma_word) ==
    lemma_word \in ENGLISH_VOCAB \/ lower(word) \in ENGLISH_VOCAB

\* C21: the wordlist holds lower-case entries only and the lemma is taken
\* from the lower-cased word, so for every alphabetic token of every text
\* the four-variant test of find_non_english_word (lemma, lemma.lower(),
\* lemma.upper(), word.lower()) gives the verdict of the two-variant test
\* (lemma, word.lower()); the lower-cased and upper-cased lemma never change
\* it, and the list returned with "en_dict" or "combined" is the list the
\* two-variant test gives.
C21_FourVariantsAreTwo ==
    /\ \A entry \in ENGLISH_VOCAB : lower(entry) = entry
    /\ (NonEnglishReturned /\ method \in { "en_dict", "combined" }) =>
          LET tokens == word_tokenize(input_text)
              kept == filtered_tokens(input_text, STOPWORDS)
              flagged == SelectSeq(kept,
                           LAMBDA wt :
                             LET lemma_word == lemmatize(lower(wt[1]))
                             IN  /\ ~InWordlistTwoVariants(wt[1], lemma_word)
                                 /\ method = "combined" => ~HasSynsets(lemma_word))
          IN  /\ \A i \in DOMAIN tokens :
                    isalpha(tokens[i]) =>
                        LET lemma_word == lemmatize(lower(tokens[i]))
                        IN  /\ lower(lemma_word) = lemma_word
                            /\ InEnDict(tokens[i], lemma_word)
                                 <=> InWordlistTwoVariants(tokens[i], lemma_word)
                            /\ lower(lemma_word) \in ENGLISH_VOCAB
                                 => lemma_word \in ENGLISH_VOCAB
                            /\ upper(lemma_word) \in ENGLISH_VOCAB
                                 => InWordlistTwoVariants(tokens[i], lemma_word)
              /\ result = [i \in DOMAIN flagged |-> flagged[i][1]]

C21_Witness ==
    /\ NonEnglishReturned
    /\ method = "en_dict"
    /\ input_text = << wtwos, waal, wdept >>
    /\ result = << wdept >>

=============================================================================
